---- MODULE Spec2Model ----
(***************************************************************************)
(* autopkgd: main's ticker loop, process() with its goroutines (recipe     *)
(* reader, closer, aggregator, dispatch loop, worker tasks) and            *)
(* notifySlack.  Unbuffered channel operations are rendezvous actions; a   *)
(* panic (send on a closed channel, WaitGroup reuse) stops the program.    *)
(***************************************************************************)
EXTENDS Integers, Sequences, FiniteSets, TLC

\* ---------------------------------------------------------------- bounds
MaxCycles == 2      \* cycles main's loop may start
MaxRecipes == 2     \* recipes dispatched in one cycle
MaxProcs == 2       \* largest conf.MaxProcesses
MaxRows == 2        \* data rows of a download summary
TimedCycles == 3    \* cycles main's loop may start when time is modelled
IntervalUnits == 2  \* time units in one conf.CheckInterval

Cycles == 1..(IF MaxCycles > TimedCycles THEN MaxCycles ELSE TimedCycles)
Workers == 1..MaxRecipes
Consumers == {"aggregator", "notifySlack"}

\* ------------------------------------------------------------ data model
UrlKey == "url_downloader_summary_result"
MunkiKey == "munki_importer_summary_result"

\* A line of the recipe file is a sequence of characters.
MakeCatalogsName ==
    <<"M","a","k","e","C","a","t","a","l","o","g","s",".","m","u","n","k","i">>
RecipeA == <<"R","e","c","i","p","e","A">>
RecipeB == <<"R","e","c","i","p","e","B">>
CommentLine == <<"#","s","k","i","p">>
EmptyLine == <<>>

\* autopkgReport: SummaryResults is a map, a set of (kind, data rows) entries.
EmptyReport == [SummaryResults |-> {}]
DownloadReport == [SummaryResults |-> {[kind |-> UrlKey, rows |-> MaxRows]}]
ImportReport == [SummaryResults |-> {[kind |-> MunkiKey, rows |-> 1]}]

\* _, ok := report.SummaryResults[key]
HasKey(report, key) == \E e \in report.SummaryResults : e.kind = key

\* len(summary.DataRows) of report.SummaryResults[key], 0 when the key is absent
Rows(report, key) ==
    IF HasKey(report, key)
    THEN (CHOOSE e \in report.SummaryResults : e.kind = key).rows
    ELSE 0

\* What runAutopkg may return: the empty report on a timeout, a tool error or
\* a report that cannot be read, else the decoded report.
RunAutopkgResults == {EmptyReport, DownloadReport, ImportReport}

\* A filter that lets comment lines through.
SkippedKeepsComments(recipe) ==
    \/ Len(recipe) = 0
    \/ recipe = MakeCatalogsName

\* ignore empty lines, comments and MakeCatalogs.munki
Skipped(recipe) ==
    Len(recipe) = 0 \/ recipe = MakeCatalogsName \/ recipe[1] = "#"

\* The scanner loop: the index of the first line from i on that is sent on
\* recipes, 0 when the scanner reaches the end of the file.
RECURSIVE ScanFrom(_, _)
ScanFrom(file, i) ==
    IF i > Len(file) THEN 0
    ELSE IF Skipped(file[i]) THEN ScanFrom(file, i + 1)
    ELSE i

\* All files of at most n lines drawn from lines.
FilesOver(lines, n) == UNION {[1..k -> lines] : k \in 0..n}

\* ----------------------------------------------------------------- state
VARIABLES
    recipeFile,        \* content of conf.RecipesFile
    concurrency,       \* conf.MaxProcesses
    slackReport,       \* *fSlack
    cyclesAllowed,     \* iterations of main's loop explored
    autopkgOutcomes,   \* reports the autopkg tool can produce in this run
    ticker,            \* ticks waiting in the ticker's channel (capacity 1)
    phase,             \* time units since the ticker last fired
    sinceGo,           \* time units since the last go process(...), capped
    mainPc,            \* main: "go" | "done" | "tick"
    cycle,             \* number of process() invocations started
    panicked,          \* "none", or the panic that stopped the program
    readerPc,          \* recipe reader goroutine
    readerPos,         \* lines consumed by the scanner
    openFailed,        \* os.Open(recipeFile) returned an error
    recipesClosed,     \* close(recipes) done
    dispPc,            \* process(): dispatch loop, decision, done
    received,          \* recipes received by the dispatch loop, in order
    wg,                \* sync.WaitGroup counter
    sem,               \* items in the sem channel
    closerPc,          \* goroutine wg.Wait(); close(reports)
    reportsClosed,     \* close(reports) done
    workerPc,          \* worker tasks, indexed by launch order
    workerReport,      \* result of runAutopkg the worker is sending
    recvBy,            \* who received the worker's result
    seen,              \* results each consumer has received
    importDelivered,   \* a result with the import summary was received
    aggPc,             \* aggregator goroutine
    catalogsModified,  \* the flag
    rebuilds,          \* makeCatalogs invocations
    slackPc,           \* notifySlack goroutine
    todoUrl,           \* download rows still to post for the current report
    todoMunki          \* import rows still to post for the current report

confVars == <<recipeFile, concurrency, slackReport, cyclesAllowed,
              autopkgOutcomes>>
timeVars == <<ticker, phase, sinceGo>>
mainVars == <<mainPc, cycle>>
readerVars == <<readerPc, readerPos, openFailed, recipesClosed>>
dispVars == <<dispPc, received, rebuilds>>
syncVars == <<wg, sem>>
closerVars == <<closerPc, reportsClosed>>
workerVars == <<workerPc, workerReport, recvBy, seen, importDelivered>>
aggVars == <<aggPc, catalogsModified>>
slackVars == <<slackPc, todoUrl, todoMunki>>
vars == <<confVars, timeVars, mainVars, panicked, readerVars, dispVars, syncVars,
          closerVars, workerVars, aggVars, slackVars>>

\* ------------------------------------------------------------------ init
InitWith(files, procs, slacks, cycles, outcomes) ==
    /\ recipeFile \in files
    /\ concurrency \in procs
    /\ slackReport \in slacks
    /\ cyclesAllowed = cycles
    /\ autopkgOutcomes = outcomes
    /\ ticker = 0
    /\ phase = 0
    /\ sinceGo = 0
    /\ mainPc = "go"
    /\ cycle = 0
    /\ panicked = "none"
    /\ readerPc = [c \in Cycles |-> "idle"]
    /\ readerPos = [c \in Cycles |-> 0]
    /\ openFailed = [c \in Cycles |-> FALSE]
    /\ recipesClosed = [c \in Cycles |-> FALSE]
    /\ dispPc = [c \in Cycles |-> "idle"]
    /\ received = [c \in Cycles |-> <<>>]
    /\ wg = [c \in Cycles |-> 0]
    /\ sem = [c \in Cycles |-> 0]
    /\ closerPc = [c \in Cycles |-> "idle"]
    /\ reportsClosed = [c \in Cycles |-> FALSE]
    /\ workerPc = [c \in Cycles |-> [w \in Workers |-> "idle"]]
    /\ workerReport = [c \in Cycles |-> [w \in Workers |-> EmptyReport]]
    /\ recvBy = [c \in Cycles |-> [w \in Workers |-> "none"]]
    /\ seen = [c \in Cycles |-> [by \in Consumers |-> 0]]
    /\ importDelivered = [c \in Cycles |-> FALSE]
    /\ aggPc = [c \in Cycles |-> "idle"]
    /\ catalogsModified = [c \in Cycles |-> FALSE]
    /\ rebuilds = [c \in Cycles |-> 0]
    /\ slackPc = [c \in Cycles |-> "idle"]
    /\ todoUrl = [c \in Cycles |-> 0]
    /\ todoMunki = [c \in Cycles |-> 0]

\* Scenario A of the specification: two of the five lines are recipes.
ScenarioA == <<RecipeA, EmptyLine, CommentLine, MakeCatalogsName, RecipeB>>

\* The whole program: main's loop over MaxCycles cycles of a file of at most
\* one recipe, run one at a time.
Init ==
    InitWith({<<>>, <<RecipeA>>}, {1}, BOOLEAN, MaxCycles, RunAutopkgResults)

\* One iteration of main's loop, one process() invocation: files of up to
\* MaxRecipes recipes, every limit up to MaxProcs, notifier on or off.
InitProcess ==
    InitWith(FilesOver({RecipeA}, MaxRecipes) \cup {ScenarioA}
               \cup {<<CommentLine>>},
             1..MaxProcs, BOOLEAN, 1, RunAutopkgResults)

\* A panic ends the program: no goroutine takes another step.
Running == panicked = "none"

\* ------------------------------------------------------------------ main
\* go process(done, ...): the invocation's locals, wg.Add(1), and its
\* goroutines (closer, reader, notifySlack if enabled, aggregator).
MainGo ==
    /\ Running
    /\ mainPc = "go"
    /\ cycle < cyclesAllowed
    /\ cycle' = cycle + 1
    /\ mainPc' = "done"
    /\ wg' = [wg EXCEPT ![cycle + 1] = 1]
    /\ closerPc' = [closerPc EXCEPT ![cycle + 1] = "wait"]
    /\ readerPc' = [readerPc EXCEPT ![cycle + 1] = "open"]
    /\ slackPc' = [slackPc EXCEPT
                     ![cycle + 1] = IF slackReport THEN "recv" ELSE "off"]
    /\ aggPc' = [aggPc EXCEPT ![cycle + 1] = "recv"]
    /\ dispPc' = [dispPc EXCEPT ![cycle + 1] = "range"]
    /\ sinceGo' = 0
    /\ UNCHANGED <<confVars, ticker, phase, panicked, readerPos, openFailed,
                   recipesClosed, received, rebuilds, sem, reportsClosed,
                   workerVars, catalogsModified, todoUrl, todoMunki>>

\* A main that goes on to the ticker without receiving from done.
MainSkipsDone ==
    /\ Running
    /\ mainPc = "done"
    /\ mainPc' = "tick"
    /\ UNCHANGED <<confVars, timeVars, cycle, panicked, readerVars, dispVars,
                   syncVars, closerVars, workerVars, aggVars, slackVars>>

\* done <- true in process meets <-done in main.
MainRecvDone ==
    /\ Running
    /\ mainPc = "done"
    /\ cycle \in Cycles
    /\ dispPc[cycle] = "senddone"
    /\ dispPc' = [dispPc EXCEPT ![cycle] = "returned"]
    /\ mainPc' = "tick"
    /\ UNCHANGED <<confVars, timeVars, cycle, panicked, readerVars, received,
                   rebuilds, syncVars, closerVars, workerVars, aggVars,
                   slackVars>>

\* <-ticker: the ticker goes on firing every CheckInterval, so a tick is
\* or becomes available.
MainRecvTick ==
    /\ Running
    /\ mainPc = "tick"
    /\ mainPc' = "go"
    /\ UNCHANGED <<confVars, timeVars, cycle, panicked, readerVars, dispVars, syncVars,
                   closerVars, workerVars, aggVars, slackVars>>

\* One time unit passes. time.NewTicker: every IntervalUnits the ticker
\* sends on its channel of capacity 1; a tick that finds the channel full is
\* dropped.  Time is counted from the first go process(...), which follows
\* time.NewTicker at once.
TimePasses ==
    /\ Running
    /\ cycle >= 1
    /\ phase' = (phase + 1) % IntervalUnits
    /\ ticker' = IF phase + 1 = IntervalUnits THEN 1 ELSE ticker
    /\ sinceGo' = IF sinceGo < IntervalUnits THEN sinceGo + 1 ELSE sinceGo
    /\ UNCHANGED <<confVars, mainVars, panicked, readerVars, dispVars,
                   syncVars, closerVars, workerVars, aggVars, slackVars>>

\* <-ticker with time modelled: main takes the tick waiting in the channel.
MainRecvTickBuffered ==
    /\ Running
    /\ mainPc = "tick"
    /\ ticker = 1
    /\ ticker' = 0
    /\ mainPc' = "go"
    /\ UNCHANGED <<confVars, phase, sinceGo, cycle, panicked, readerVars,
                   dispVars, syncVars, closerVars, workerVars, aggVars,
                   slackVars>>

\* --------------------------------------------------------- recipe reader
\* os.Open(recipeFile): on an error, log and return (the deferred wg.Done
\* still runs; recipes is not closed).
ReaderOpen(c) ==
    /\ Running
    /\ readerPc[c] = "open"
    /\ \E ok \in BOOLEAN :
         /\ openFailed' = [openFailed EXCEPT ![c] = ~ok]
         /\ readerPc' = [readerPc EXCEPT ![c] = IF ok THEN "scan" ELSE "wgdone"]
    /\ UNCHANGED <<confVars, timeVars, mainVars, panicked, readerPos, recipesClosed,
                   dispVars, syncVars, closerVars, workerVars, aggVars,
                   slackVars>>

\* recipes <- recipe meets the dispatch loop's receive (for recipe := range).
RecipeHandoff(c) ==
    /\ Running
    /\ readerPc[c] = "scan"
    /\ dispPc[c] = "range"
    /\ ScanFrom(recipeFile, readerPos[c] + 1) # 0
    /\ LET i == ScanFrom(recipeFile, readerPos[c] + 1) IN
         /\ readerPos' = [readerPos EXCEPT ![c] = i]
         /\ received' = [received EXCEPT ![c] = Append(@, recipeFile[i])]
    /\ dispPc' = [dispPc EXCEPT ![c] = "add"]
    /\ UNCHANGED <<confVars, timeVars, mainVars, panicked, readerPc, openFailed,
                   recipesClosed, rebuilds, syncVars, closerVars, workerVars,
                   aggVars, slackVars>>

\* scanner.Scan() returns false: close(recipes)
ReaderClose(c) ==
    /\ Running
    /\ readerPc[c] = "scan"
    /\ ScanFrom(recipeFile, readerPos[c] + 1) = 0
    /\ readerPos' = [readerPos EXCEPT ![c] = Len(recipeFile)]
    /\ recipesClosed' = [recipesClosed EXCEPT ![c] = TRUE]
    /\ readerPc' = [readerPc EXCEPT ![c] = "wgdone"]
    /\ UNCHANGED <<confVars, timeVars, mainVars, panicked, openFailed, dispVars,
                   syncVars, closerVars, workerVars, aggVars, slackVars>>

\* defer wg.Done()
ReaderDone(c) ==
    /\ Running
    /\ readerPc[c] = "wgdone"
    /\ wg' = [wg EXCEPT ![c] = @ - 1]
    /\ readerPc' = [readerPc EXCEPT ![c] = "exited"]
    /\ UNCHANGED <<confVars, timeVars, mainVars, panicked, readerPos, openFailed,
                   recipesClosed, dispVars, sem, closerVars, workerVars,
                   aggVars, slackVars>>

\* --------------------------------------------------------- dispatch loop
\* wg.Add(1) for the recipe just received
DispatchAdd(c) ==
    /\ Running
    /\ dispPc[c] = "add"
    /\ wg' = [wg EXCEPT ![c] = @ + 1]
    /\ dispPc' = [dispPc EXCEPT ![c] = "sem"]
    /\ UNCHANGED <<confVars, timeVars, mainVars, panicked, readerVars, received,
                   rebuilds, sem, closerVars, workerVars, aggVars, slackVars>>

\* A gate that admits one task too many.
SemHasRoomOffByOne(c) == sem[c] <= concurrency

\* sem := make(chan int, concurrency): a send blocks while it holds
\* concurrency items.
SemHasRoom(c) == sem[c] < concurrency

\* sem <- 1; go func(recipe) {...}(recipe)
DispatchLaunch(c) ==
    /\ Running
    /\ dispPc[c] = "sem"
    /\ SemHasRoom(c)
    /\ sem' = [sem EXCEPT ![c] = @ + 1]
    /\ workerPc' = [workerPc EXCEPT ![c][Len(received[c])] = "run"]
    /\ dispPc' = [dispPc EXCEPT ![c] = "range"]
    /\ UNCHANGED <<confVars, timeVars, mainVars, panicked, readerVars, received,
                   rebuilds, wg, closerVars, workerReport, recvBy, seen,
                   importDelivered, aggVars, slackVars>>

\* range recipes ends: the channel is closed (and, unbuffered, empty)
DispatchLoopEnd(c) ==
    /\ Running
    /\ dispPc[c] = "range"
    /\ recipesClosed[c]
    /\ dispPc' = [dispPc EXCEPT ![c] = "decide"]
    /\ UNCHANGED <<confVars, timeVars, mainVars, panicked, readerVars, received,
                   rebuilds, syncVars, closerVars, workerVars, aggVars,
                   slackVars>>

\* A decision that runs makeCatalogs whatever the flag says.
DecideUnconditional(c) ==
    /\ Running
    /\ dispPc[c] = "decide"
    /\ dispPc' = [dispPc EXCEPT ![c] = "makecatalogs"]
    /\ rebuilds' = [rebuilds EXCEPT ![c] = @ + 1]
    /\ UNCHANGED <<confVars, timeVars, mainVars, panicked, readerVars,
                   received, syncVars, closerVars, workerVars, aggVars,
                   slackVars>>

\* if catalogsModified { makeCatalogs(...) }
Decide(c) ==
    /\ Running
    /\ dispPc[c] = "decide"
    /\ IF catalogsModified[c]
       THEN /\ dispPc' = [dispPc EXCEPT ![c] = "makecatalogs"]
            /\ rebuilds' = [rebuilds EXCEPT ![c] = @ + 1]
       ELSE /\ dispPc' = [dispPc EXCEPT ![c] = "senddone"]
            /\ UNCHANGED rebuilds
    /\ UNCHANGED <<confVars, timeVars, mainVars, panicked, readerVars, received,
                   syncVars, closerVars, workerVars, aggVars, slackVars>>

\* makeCatalogs returns (an error of the tool is logged)
MakeCatalogsReturn(c) ==
    /\ Running
    /\ dispPc[c] = "makecatalogs"
    /\ dispPc' = [dispPc EXCEPT ![c] = "senddone"]
    /\ UNCHANGED <<confVars, timeVars, mainVars, panicked, readerVars, received,
                   rebuilds, syncVars, closerVars, workerVars, aggVars,
                   slackVars>>

\* ---------------------------------------------------------- worker tasks
\* runAutopkg(recipe, ...) returns
RunAutopkg(c, w) ==
    /\ Running
    /\ workerPc[c][w] = "run"
    /\ \E r \in autopkgOutcomes :
         workerReport' = [workerReport EXCEPT ![c][w] = r]
    /\ workerPc' = [workerPc EXCEPT ![c][w] = "send"]
    /\ UNCHANGED <<confVars, timeVars, mainVars, panicked, readerVars, dispVars,
                   syncVars, closerVars, recvBy, seen, importDelivered, aggVars,
                   slackVars>>

\* reports <- ... on the closed channel: panic
WorkerSendPanic(c, w) ==
    /\ Running
    /\ workerPc[c][w] = "send"
    /\ reportsClosed[c]
    /\ panicked' = "send on closed channel"
    /\ UNCHANGED <<confVars, timeVars, mainVars, readerVars, dispVars, syncVars,
                   closerVars, workerVars, aggVars, slackVars>>

\* wg.Done()
WorkerDone(c, w) ==
    /\ Running
    /\ workerPc[c][w] = "wgdone"
    /\ wg' = [wg EXCEPT ![c] = @ - 1]
    /\ workerPc' = [workerPc EXCEPT ![c][w] = "relsem"]
    /\ UNCHANGED <<confVars, timeVars, mainVars, panicked, readerVars, dispVars, sem,
                   closerVars, workerReport, recvBy, seen, importDelivered, aggVars,
                   slackVars>>

\* <-sem
WorkerRelease(c, w) ==
    /\ Running
    /\ workerPc[c][w] = "relsem"
    /\ sem' = [sem EXCEPT ![c] = @ - 1]
    /\ workerPc' = [workerPc EXCEPT ![c][w] = "exited"]
    /\ UNCHANGED <<confVars, timeVars, mainVars, panicked, readerVars, dispVars, wg,
                   closerVars, workerReport, recvBy, seen, importDelivered, aggVars,
                   slackVars>>

\* ---------------------------------------------------------------- closer
\* wg.Wait() returns: the counter is zero
CloserWake(c) ==
    /\ Running
    /\ closerPc[c] = "wait"
    /\ wg[c] = 0
    /\ closerPc' = [closerPc EXCEPT ![c] = "close"]
    /\ UNCHANGED <<confVars, timeVars, mainVars, panicked, readerVars, dispVars,
                   syncVars, reportsClosed, workerVars, aggVars, slackVars>>

\* close(reports)
CloserClose(c) ==
    /\ Running
    /\ closerPc[c] = "close"
    /\ reportsClosed' = [reportsClosed EXCEPT ![c] = TRUE]
    /\ closerPc' = [closerPc EXCEPT ![c] = "exited"]
    /\ UNCHANGED <<confVars, timeVars, mainVars, panicked, readerVars, dispVars,
                   syncVars, workerVars, aggVars, slackVars>>

\* wg.Add ran between the wake-up and Wait's return: Wait may panic
\* ("WaitGroup is reused before previous Wait has returned").
CloserPanic(c) ==
    /\ Running
    /\ closerPc[c] = "close"
    /\ wg[c] > 0
    /\ panicked' = "WaitGroup is reused"
    /\ UNCHANGED <<confVars, timeVars, mainVars, readerVars, dispVars, syncVars,
                   closerVars, workerVars, aggVars, slackVars>>

\* ------------------------------------------------------------ aggregator
\* A receive that leaves the result with its sender, for the other
\* consumer to receive as well.
DeliverKeepsResult(c, w, by) ==
    /\ recvBy' = [recvBy EXCEPT ![c][w] = by]
    /\ seen' = [seen EXCEPT ![c][by] = @ + 1]
    /\ importDelivered' =
         [importDelivered EXCEPT
            ![c] = @ \/ HasKey(workerReport[c][w], MunkiKey)]
    /\ UNCHANGED <<workerReport, workerPc>>

\* The send reports <- ... of worker w completes with the receive of `by`:
\* the result is handed over and the worker goes on to wg.Done().
Deliver(c, w, by) ==
    /\ recvBy' = [recvBy EXCEPT ![c][w] = by]
    /\ seen' = [seen EXCEPT ![c][by] = @ + 1]
    /\ importDelivered' =
         [importDelivered EXCEPT
            ![c] = @ \/ HasKey(workerReport[c][w], MunkiKey)]
    /\ workerReport' = [workerReport EXCEPT ![c][w] = EmptyReport]
    /\ workerPc' = [workerPc EXCEPT ![c][w] = "wgdone"]

\* for report := range reports: the receive meets worker w's send
AggRecv(c, w) ==
    /\ Running
    /\ aggPc[c] = "recv"
    /\ workerPc[c][w] = "send"
    /\ ~reportsClosed[c]
    /\ Deliver(c, w, "aggregator")
    /\ aggPc' = [aggPc EXCEPT
                   ![c] = IF HasKey(workerReport[c][w], MunkiKey)
                          THEN "set" ELSE "recv"]
    /\ UNCHANGED <<confVars, timeVars, mainVars, panicked, readerVars, dispVars,
                   syncVars, closerVars, catalogsModified, slackVars>>

\* A write that flips the flag instead of setting it.
AggSetFlips(c) ==
    /\ Running
    /\ aggPc[c] = "set"
    /\ catalogsModified' = [catalogsModified EXCEPT ![c] = ~@]
    /\ aggPc' = [aggPc EXCEPT ![c] = "recv"]
    /\ UNCHANGED <<confVars, timeVars, mainVars, panicked, readerVars, dispVars,
                   syncVars, closerVars, workerVars, slackVars>>

\* catalogsModified = true.  The write is not synchronized with the read in
\* process: the read sees the write or not, as the two steps interleave.
AggSet(c) ==
    /\ Running
    /\ aggPc[c] = "set"
    /\ catalogsModified' = [catalogsModified EXCEPT ![c] = TRUE]
    /\ aggPc' = [aggPc EXCEPT ![c] = "recv"]
    /\ UNCHANGED <<confVars, timeVars, mainVars, panicked, readerVars, dispVars,
                   syncVars, closerVars, workerVars, slackVars>>

\* range reports ends: the channel is closed
AggExit(c) ==
    /\ Running
    /\ aggPc[c] = "recv"
    /\ reportsClosed[c]
    /\ aggPc' = [aggPc EXCEPT ![c] = "exited"]
    /\ UNCHANGED <<confVars, timeVars, mainVars, panicked, readerVars, dispVars,
                   syncVars, closerVars, workerVars, catalogsModified,
                   slackVars>>

\* ----------------------------------------------------------- notifySlack
\* for report := range reports: the receive meets worker w's send
SlackRecv(c, w) ==
    /\ Running
    /\ slackPc[c] = "recv"
    /\ workerPc[c][w] = "send"
    /\ ~reportsClosed[c]
    /\ Deliver(c, w, "notifySlack")
    /\ LET u == Rows(workerReport[c][w], UrlKey)
           m == Rows(workerReport[c][w], MunkiKey)
       IN  /\ todoUrl' = [todoUrl EXCEPT ![c] = u]
           /\ todoMunki' = [todoMunki EXCEPT ![c] = m]
           /\ slackPc' = [slackPc EXCEPT
                            ![c] = IF u + m = 0 THEN "recv" ELSE "post"]
    /\ UNCHANGED <<confVars, timeVars, mainVars, panicked, readerVars, dispVars,
                   syncVars, closerVars, aggVars>>

\* err := msg.Post(conf.WebhookURL) for the next row, the download rows
\* first; if err != nil { log.Println(err); return }.  A Post fails on a
\* transport error or a status other than 200.  Rows carry the string fields
\* the loops read.
SlackPost(c) ==
    /\ Running
    /\ slackPc[c] = "post"
    /\ \E ok \in BOOLEAN :
         IF ok
         THEN /\ IF todoUrl[c] > 0
                 THEN /\ todoUrl' = [todoUrl EXCEPT ![c] = @ - 1]
                      /\ UNCHANGED todoMunki
                 ELSE /\ todoMunki' = [todoMunki EXCEPT ![c] = @ - 1]
                      /\ UNCHANGED todoUrl
              /\ slackPc' = [slackPc EXCEPT
                               ![c] = IF todoUrl[c] + todoMunki[c] = 1
                                      THEN "recv" ELSE "post"]
         ELSE /\ slackPc' = [slackPc EXCEPT ![c] = "returned"]
              /\ UNCHANGED <<todoUrl, todoMunki>>
    /\ UNCHANGED <<confVars, timeVars, mainVars, panicked, readerVars, dispVars,
                   syncVars, closerVars, workerVars, aggVars>>

\* range reports ends: the channel is closed
SlackExit(c) ==
    /\ Running
    /\ slackPc[c] = "recv"
    /\ reportsClosed[c]
    /\ slackPc' = [slackPc EXCEPT ![c] = "exited"]
    /\ UNCHANGED <<confVars, timeVars, mainVars, panicked, readerVars, dispVars,
                   syncVars, closerVars, workerVars, aggVars, todoUrl,
                   todoMunki>>

\* --------------------------------------------------------- specification
\* The steps of invocation c and of its goroutines.
ProcessNext(c) ==
    \/ ReaderOpen(c)
    \/ RecipeHandoff(c)
    \/ ReaderClose(c)
    \/ ReaderDone(c)
    \/ DispatchAdd(c)
    \/ DispatchLaunch(c)
    \/ DispatchLoopEnd(c)
    \/ Decide(c)
    \/ MakeCatalogsReturn(c)
    \/ CloserWake(c)
    \/ CloserClose(c)
    \/ CloserPanic(c)
    \/ AggSet(c)
    \/ AggExit(c)
    \/ SlackPost(c)
    \/ SlackExit(c)
    \/ \E w \in Workers :
         \/ RunAutopkg(c, w)
         \/ WorkerSendPanic(c, w)
         \/ WorkerDone(c, w)
         \/ WorkerRelease(c, w)
         \/ AggRecv(c, w)
         \/ SlackRecv(c, w)

Next ==
    \/ MainGo
    \/ MainRecvDone
    \/ MainRecvTick
    \/ \E c \in Cycles : ProcessNext(c)

Spec == Init /\ [][Next]_vars

SpecProcess == InitProcess /\ [][Next]_vars

\* The whole program re-running one cycle under fixed inputs: the same
\* one-recipe file, limit 1, and an autopkg tool whose report for the recipe
\* is the same in every run (it has the import summary).
InitRerun == InitWith({<<RecipeA>>}, {1}, BOOLEAN, MaxCycles, {ImportReport})

SpecRerun == InitRerun /\ [][Next]_vars

\* The whole program with time modelled, on an empty recipe file: the steps
\* of main, of the ticker and of the goroutines that run when no recipe is
\* dispatched.
InitTimed == InitWith({<<>>}, {1}, BOOLEAN, TimedCycles, RunAutopkgResults)

NextTimed ==
    \/ MainGo
    \/ MainRecvDone
    \/ MainRecvTickBuffered
    \/ TimePasses
    \/ \E c \in Cycles :
         \/ ReaderOpen(c)
         \/ ReaderClose(c)
         \/ ReaderDone(c)
         \/ DispatchLoopEnd(c)
         \/ Decide(c)
         \/ CloserWake(c)
         \/ CloserClose(c)
         \/ AggExit(c)
         \/ SlackExit(c)

SpecTimed == InitTimed /\ [][NextTimed]_vars

\* The whole program without the notifier, over MaxCycles cycles of a file of
\* at most one recipe whose autopkg report has the import summary: the steps
\* of Next that can be taken when *fSlack is false.
InitLoop ==
    InitWith({<<>>, <<RecipeA>>}, {1}, {FALSE}, MaxCycles, {ImportReport})

NextLoop ==
    \/ MainGo
    \/ MainRecvDone
    \/ MainRecvTick
    \/ \E c \in Cycles :
         \/ ReaderOpen(c)
         \/ RecipeHandoff(c)
         \/ ReaderClose(c)
         \/ ReaderDone(c)
         \/ DispatchAdd(c)
         \/ DispatchLaunch(c)
         \/ DispatchLoopEnd(c)
         \/ Decide(c)
         \/ MakeCatalogsReturn(c)
         \/ CloserWake(c)
         \/ CloserClose(c)
         \/ CloserPanic(c)
         \/ AggSet(c)
         \/ AggExit(c)
         \/ \E w \in Workers :
              \/ RunAutopkg(c, w)
              \/ WorkerSendPanic(c, w)
              \/ WorkerDone(c, w)
              \/ WorkerRelease(c, w)
              \/ AggRecv(c, w)

SpecLoop == InitLoop /\ [][NextLoop]_vars

\* One process() invocation over every file of up to MaxRecipes lines drawn
\* from the five kinds of line, and the file of Scenario A.
AllLines == {RecipeA, RecipeB, CommentLine, EmptyLine, MakeCatalogsName}

InitReader ==
    InitWith(FilesOver(AllLines, MaxRecipes) \cup {ScenarioA},
             {1}, {TRUE}, 1, {ImportReport})

SpecReader == InitReader /\ [][Next]_vars

TypeOK ==
    /\ mainPc \in {"go", "done", "tick"}
    /\ cycle \in 0..cyclesAllowed
    /\ ticker \in 0..1
    /\ phase \in 0..(IntervalUnits - 1)
    /\ sinceGo \in 0..IntervalUnits
    /\ autopkgOutcomes \subseteq RunAutopkgResults
    /\ seen \in [Cycles -> [Consumers -> 0..MaxRecipes]]
    /\ \A c \in Cycles :
         /\ wg[c] \in 0..(MaxRecipes + 1)
         /\ sem[c] \in 0..concurrency
         /\ rebuilds[c] \in 0..1
         /\ Len(received[c]) <= MaxRecipes

\* ----------------------------------------------------------- properties
\* The workers launched for the recipes the dispatch loop has received.
Launched(c) == 1..Len(received[c])

\* Recipes received by the dispatch loop whose result no consumer has
\* received yet.
Undelivered(c) == {w \in Launched(c) : recvBy[c][w] = "none"}

\* Results of cycle c received by consumer `by`.
SeenBy(c, by) == {w \in Launched(c) : recvBy[c][w] = by}

\* Workers holding an admission slot: from sem <- 1 to <-sem.
Holding(c) ==
    {w \in Workers : workerPc[c][w] \in {"run", "send", "wgdone", "relsem"}}

\* runAutopkg executions in progress, over all cycles.
Executing == {cw \in Cycles \X Workers : workerPc[cw[1]][cw[2]] = "run"}

\* The notifier of cycle c is not (or no longer) reading reports.
SlackGone(c) == slackPc[c] \in {"off", "exited", "returned"}

\* Cycle c is over: no task is running or sending, reports is closed and
\* its consumers have left their range loops.
CycleComplete(c) ==
    /\ dispPc[c] = "returned"
    /\ \A w \in Workers : workerPc[c][w] \in {"idle", "exited"}
    /\ reportsClosed[c]
    /\ aggPc[c] = "exited"
    /\ SlackGone(c)

\* C1: reports is closed only after every recipe the dispatch loop received
\* has had its result delivered, and no task sends on the closed channel.
C1_CloseAfterAllDelivered ==
    /\ \A c \in Cycles : reportsClosed[c] => Undelivered(c) = {}
    /\ panicked # "send on closed channel"

\* C2: in a cycle that dispatched recipes, the step that reads
\* catalogsModified for the rebuild decision is taken only when every
\* dispatched result has been received and the aggregator has seen reports
\* closed.
C2_DecisionAfterAggregation ==
    [][\A c \in Cycles :
         (dispPc[c] = "decide" /\ dispPc'[c] # "decide" /\ received[c] # <<>>)
           => (Undelivered(c) = {} /\ aggPc[c] = "exited")]_vars

\* C3: when cycle c + 1 has been started, a cycle c that dispatched recipes
\* is complete: no task of it runs or waits to send, reports is closed,
\* aggregator and notifier are gone.
C3_CyclesNeverOverlap ==
    \A c \in Cycles :
      (c + 1 <= cycle /\ received[c] # <<>>) => CycleComplete(c)

\* C4: makeCatalogs runs only once reports is closed, and a cycle in which a
\* delivered result had the import summary has invoked it exactly once when
\* process returns.
C4_RebuildOnceAfterClose ==
    \A c \in Cycles :
      /\ dispPc[c] = "makecatalogs" => reportsClosed[c]
      /\ (dispPc[c] = "returned" /\ importDelivered[c]) => rebuilds[c] = 1

\* C5: every recipe received by the dispatch loop has its result delivered:
\* no send fails, and a consumer that has seen reports closed has left no
\* received recipe without a delivered result.
C5_OneResultPerRecipe ==
    /\ panicked # "send on closed channel"
    /\ \A c \in Cycles :
         (aggPc[c] = "exited" \/ slackPc[c] = "exited")
           => (Undelivered(c) = {} /\ dispPc[c] \notin {"add", "sem"})

\* C6: in one invocation at most concurrency workers hold an admission slot
\* (sem counts them), so at most concurrency executions are active; with a
\* limit of 1 no two tasks of a cycle hold a slot together.
C6_AtMostNHoldSlots ==
    \A c \in Cycles :
      /\ Cardinality(Holding(c)) <= concurrency
      /\ sem[c] = Cardinality(Holding(c))
      /\ concurrency = 1 =>
           \A v, w \in Holding(c) : v = w

\* A recipe waits at sem <- 1 while concurrency tasks hold the slots and
\* one of them is executing.
C6_Witness ==
    \E c \in Cycles :
      /\ dispPc[c] = "sem"
      /\ Cardinality(Holding(c)) = concurrency
      /\ \E w \in Workers : workerPc[c][w] = "run"

\* C7: over all cycles together at most MaxProcesses executions of
\* runAutopkg are active.
C7_AtMostNExecutingOverall == Cardinality(Executing) <= concurrency

\* C8: a cycle whose recipe file could not be opened is not left stuck: until
\* process has sent on done, some step of the invocation remains possible.
C8_OpenFailureEndsCycle ==
    \A c \in Cycles :
      (openFailed[c] /\ dispPc[c] # "returned")
        => (ENABLED ProcessNext(c) \/ ENABLED MainRecvDone)

\* C9: a failed POST drops only that notification: the notifier never
\* leaves a further row of the result unattempted.
C9_FailedPostDropsOnlyItself ==
    \A c \in Cycles :
      slackPc[c] = "returned" => todoUrl[c] + todoMunki[c] = 1

\* C10: with the notifier enabled, once both consumers have seen reports
\* closed each of them has received every result sent in the cycle.
C10_BothConsumersSeeAll ==
    \A c \in Cycles :
      (slackReport /\ aggPc[c] = "exited" /\ slackPc[c] = "exited")
        => /\ SeenBy(c, "aggregator") = Launched(c) \ Undelivered(c)
           /\ SeenBy(c, "notifySlack") = Launched(c) \ Undelivered(c)

\* process() has evaluated `if catalogsModified`.
Decided(c) == dispPc[c] \in {"makecatalogs", "senddone", "returned"}

\* C11: the rebuild outcome is a function of the inputs only: with the
\* recipe list, the limit, the notifier setting and every recipe's autopkg
\* result fixed, any two cycles that have taken the decision took the same
\* one.
C11_SameInputsSameDecision ==
    Cardinality(autopkgOutcomes) = 1 =>
      \A c \in Cycles : \A d \in Cycles :
        Decided(c) /\ Decided(d) => rebuilds[c] = rebuilds[d]

\* The lines of the file that are non-empty, are not "MakeCatalogs.munki"
\* and do not start with "#", in file order.
Kept(line) ==
    /\ Len(line) > 0
    /\ line # MakeCatalogsName
    /\ Head(line) # "#"

Yielded(file) == SelectSeq(file, Kept)

IsPrefix(s, t) == Len(s) <= Len(t) /\ s = SubSeq(t, 1, Len(s))

\* C12: the recipes the dispatch loop has received are, in file order and
\* with duplicates, the lines of the file that are non-empty, are not
\* "MakeCatalogs.munki" and do not start with "#": a prefix of them while
\* the reader is scanning, all of them once the reader has closed recipes.
C12_ReceivedIsFilteredFile ==
    \A c \in Cycles :
      /\ IsPrefix(received[c], Yielded(recipeFile))
      /\ recipesClosed[c] => received[c] = Yielded(recipeFile)

C12_Witness ==
    /\ recipeFile = ScenarioA
    /\ recipesClosed[1]
    /\ received[1] = <<RecipeA, RecipeB>>

\* The worker's runAutopkg failed: it holds the empty report, still to send.
FailedUnsent(c, w) ==
    workerPc[c][w] = "send" /\ workerReport[c][w] = EmptyReport

\* C13: a failure of one recipe never aborts the cycle: the worker whose
\* runAutopkg returned the empty report can still send it (the program is
\* running and reports is open), so that it goes on to wg.Done and to
\* release its slot.
C13_FailureNeverAbortsCycle ==
    \A c \in Cycles : \A w \in Workers :
      FailedUnsent(c, w) => Running /\ ~reportsClosed[c]

\* C14: makeCatalogs is invoked at most once per cycle, and never in a
\* cycle in which no delivered result had the import summary.
C14_RebuildNeedsImport ==
    \A c \in Cycles :
      /\ rebuilds[c] <= 1
      /\ rebuilds[c] = 1 => importDelivered[c]

\* A cycle with results, none of them with the import summary, has
\* returned without a rebuild.
C14_Witness ==
    \E c \in Cycles :
      /\ dispPc[c] = "returned"
      /\ received[c] # <<>>
      /\ Undelivered(c) = {}
      /\ ~importDelivered[c]
      /\ rebuilds[c] = 0

\* C15: within a cycle the flag is monotonic: it is false when the cycle
\* starts, a step makes it true only when the aggregator has received a
\* result with the import summary, and no step makes it false again.
C15_FlagMonotonic ==
    [][\A c \in Cycles :
         /\ dispPc[c] = "idle" => ~catalogsModified'[c]
         /\ catalogsModified[c] => catalogsModified'[c]
         /\ ~catalogsModified[c] /\ catalogsModified'[c]
              => aggPc[c] = "set" /\ importDelivered[c]]_vars

\* The flag is set and the aggregator has gone on to receive every result
\* of a cycle of MaxRecipes recipes.
C15_Witness ==
    \E c \in Cycles :
      /\ catalogsModified[c]
      /\ aggPc[c] = "exited"
      /\ Cardinality(SeenBy(c, "aggregator")) = MaxRecipes

\* C16: consecutive cycle starts are at least one CheckInterval apart: when
\* main starts a cycle after the first, IntervalUnits time units or more
\* have passed since it started the previous one.
C16_StartsOneIntervalApart ==
    [][cycle >= 1 /\ cycle' = cycle + 1 => sinceGo = IntervalUnits]_vars

\* The cycles whose dispatch loop (for recipe := range recipes) is running.
InDispatchLoop == {c \in Cycles : dispPc[c] \in {"range", "add", "sem"}}

\* The cycles inside makeCatalogs.
InMakeCatalogs == {c \in Cycles : dispPc[c] = "makecatalogs"}

\* C17: a cycle's dispatch loop starts only after every earlier cycle has
\* taken its rebuild decision, returned from makeCatalogs if it called it,
\* and sent done; so at most one dispatch loop and at most one makeCatalogs
\* invocation are active at any instant.
C17_OneDispatchLoopAtATime ==
    /\ \A c \in Cycles : \A d \in Cycles :
         d < c /\ dispPc[c] # "idle" => dispPc[d] = "returned"
    /\ Cardinality(InDispatchLoop) <= 1
    /\ Cardinality(InMakeCatalogs) <= 1

\* A cycle has rebuilt the catalogs and the next cycle is dispatching.
C17_Witness ==
    \E c \in Cycles :
      /\ c + 1 <= cycle
      /\ rebuilds[c] = 1
      /\ dispPc[c + 1] \in {"add", "sem"}

\* C18: the result stream is never left open: while a started cycle's
\* reports channel is open the program can take a step (towards closing
\* it), so no run ends with reports open, recipes or none, file opened or
\* not.
C18_ReportsNeverLeftOpen ==
    \A c \in Cycles :
      dispPc[c] # "idle" /\ ~reportsClosed[c] => ENABLED Next

\* C19: process() never deadlocks when the recipe file is readable: until
\* the invocation has sent done, the program can take a step, whatever the
\* number of recipes, the limit and the state of the notifier.
C19_ProcessNeverStuck ==
    \A c \in Cycles :
      dispPc[c] \notin {"idle", "returned"} /\ ~openFailed[c]
        => ENABLED Next

\* Workers whose send on reports has completed.
Sent(c) == {w \in Workers : workerPc[c][w] \in {"wgdone", "relsem", "exited"}}

\* C20: each result sent on reports is received exactly once in total: the
\* sends that have completed are the results that have a receiver, the
\* numbers of results the two consumers have received sum to the number of
\* results sent, and with the notifier off the aggregator receives them all.
C20_EachResultReceivedOnce ==
    \A c \in Cycles :
      /\ \A w \in Workers : w \in Sent(c) <=> recvBy[c][w] \in Consumers
      /\ seen[c]["aggregator"] + seen[c]["notifySlack"]
           = Cardinality(Sent(c))
      /\ ~slackReport => seen[c]["notifySlack"] = 0

\* With the notifier enabled, every result of a cycle has been delivered,
\* some to the aggregator and some to notifySlack.
C20_Witness ==
    \E c \in Cycles :
      /\ slackReport
      /\ reportsClosed[c]
      /\ Cardinality(Sent(c)) = MaxRecipes
      /\ seen[c]["aggregator"] >= 1
      /\ seen[c]["notifySlack"] >= 1


=============================================================================
